---- MODULE Spec2Model ----
(***************************************************************************)
(* MB8600 watchdog: the supervisor loop of monitor_internet_improved.main, *)
(* the diagnostic battery of network_diagnostics.NetworkDiagnostics, the   *)
(* reboot classifier _analyze_reboot_necessity and the reboot path         *)
(* reboot_modem, as one state machine.                                     *)
(*                                                                         *)
(* Time is an integer clock `now`; every blocking call (probe, diagnostic  *)
(* run, reboot attempt, sleep) lets it advance by 0..MaxStep ticks.        *)
(***************************************************************************)
EXTENDS Integers, Sequences, FiniteSets, TLC

\* ---------------------------------------------------------------- bounds
\* last tick of the clock
MaxTime == 3
\* most ticks one blocking call takes
MaxStep == 1
\* largest configured --failure-threshold (0 is accepted by argparse)
MaxThreshold == 2
\* most consecutive DOWN probes explored
MaxDowns == 3
\* most tests of one diagnostic run that fail on their own
MaxFailed == 1
\* largest configured --outage-report-interval, in ticks
MaxInterval == 1

\* Python's None for outage_start_time
None == -1

VARIABLES
    FAILURE_THRESHOLD,      \* args.failure_threshold
    ENABLE_DIAGNOSTICS,     \* args.enable_diagnostics and not args.disable_diagnostics
    OUTAGE_REPORT_INTERVAL, \* args.outage_report_interval
    pc,                     \* position of main's loop
    now,                    \* the clock read by time.time()
    failure_count,
    outage_start_time,
    total_outage_duration,
    last_report_time,
    iter,                   \* history of the current loop iteration
    downs,                  \* history: consecutive DOWN probes since the last UP probe
    opened,                 \* history: time of the first DOWN probe since the last UP probe
    completed,              \* history: sum of the outages closed by an UP probe
    detector,               \* one call of modem_reboot.wait_for_reboot_cycle
    client,                 \* one SurfboardHNAP client inside reboot_modem
    classified,             \* one call of _analyze_reboot_necessity
    probe,                  \* one call of check_internet
    original                \* monitor_internet.main run on the same outcomes

vars == << FAILURE_THRESHOLD, ENABLE_DIAGNOSTICS, OUTAGE_REPORT_INTERVAL, pc, now,
           failure_count, outage_start_time, total_outage_duration,
           last_report_time, iter, downs, opened, completed,
           detector, client, classified, probe, original >>

\* the functions analysed on their own, each under a specification of its own
units == << detector, client, classified, probe, original >>

\* the variables of main's loop
supervisor == << FAILURE_THRESHOLD, ENABLE_DIAGNOSTICS, OUTAGE_REPORT_INTERVAL, pc, now,
                 failure_count, outage_start_time, total_outage_duration,
                 last_report_time, iter, downs, opened, completed >>

config == << FAILURE_THRESHOLD, ENABLE_DIAGNOSTICS, OUTAGE_REPORT_INTERVAL >>

\* ------------------------------------------------------- diagnostic tests
\* NetworkLayer enum values
Layers == << "Physical", "Data Link", "Network", "Transport", "Application" >>

\* The tests of run_full_diagnostics in the order they are run; test_name is
\* modelled as <<family, argument>> for the f-string "family (argument)".
Battery ==
    << [layer |-> "Physical",    test_name |-> <<"Network Interfaces", "">>],
       [layer |-> "Physical",    test_name |-> <<"Interface Statistics", "">>],
       [layer |-> "Data Link",   test_name |-> <<"ARP Table", "">>],
       [layer |-> "Data Link",   test_name |-> <<"Local Network", "">>],
       [layer |-> "Network",     test_name |-> <<"IP Configuration", "">>],
       [layer |-> "Network",     test_name |-> <<"Routing Table", "">>],
       [layer |-> "Network",     test_name |-> <<"ICMP Ping", "Gateway">>],
       [layer |-> "Network",     test_name |-> <<"ICMP Ping", "Modem">>],
       [layer |-> "Network",     test_name |-> <<"ICMP Ping", "Local DNS">>],
       [layer |-> "Network",     test_name |-> <<"ICMP Ping", "Remote DNS">>],
       [layer |-> "Network",     test_name |-> <<"ICMP Ping", "Public Server">>],
       [layer |-> "Transport",   test_name |-> <<"TCP Connection", "Modem HTTPS">>],
       [layer |-> "Transport",   test_name |-> <<"TCP Connection", "Modem HTTP">>],
       [layer |-> "Transport",   test_name |-> <<"TCP Connection", "DNS TCP">>],
       [layer |-> "Transport",   test_name |-> <<"TCP Connection", "HTTPS">>],
       [layer |-> "Transport",   test_name |-> <<"TCP Connection", "HTTP">>],
       [layer |-> "Transport",   test_name |-> <<"UDP Connection", "DNS UDP">>],
       [layer |-> "Transport",   test_name |-> <<"UDP Connection", "DNS UDP Alt">>],
       [layer |-> "Application", test_name |-> <<"DNS Resolution", "google.com">>],
       [layer |-> "Application", test_name |-> <<"DNS Resolution", "cloudflare.com">>],
       [layer |-> "Application", test_name |-> <<"DNS Resolution", "amazon.com">>],
       [layer |-> "Application", test_name |-> <<"DNS Resolution", "github.com">>],
       [layer |-> "Application", test_name |-> <<"HTTP Request", "https://www.google.com">>],
       [layer |-> "Application", test_name |-> <<"HTTP Request", "https://www.cloudflare.com">>],
       [layer |-> "Application", test_name |-> <<"HTTP Request", "https://www.amazon.com">>],
       [layer |-> "Application", test_name |-> <<"HTTP Request", "http://httpbin.org/get">>] >>

TestIds == DOMAIN Battery

\* positions of the two tests that use _get_gateway_ip
LocalNetworkTest == 4
GatewayPingTest == 7

\* Python's `sub in r.test_name` for the substrings the classifier looks for
InName(sub, test_name) ==
    \/ test_name[1] = sub
    \/ sub = "Routing" /\ test_name[1] = "Routing Table"

\* ------------------------------------------------------------ classifier
\* the failed results of a layer (layer_failures, lines 259-264)
FailedIn(results, layer) ==
    {i \in DOMAIN results : ~results[i].success /\ results[i].layer = layer}

\* the failed results whose test_name contains sub
FailedNamed(results, sub) ==
    {i \in DOMAIN results : ~results[i].success /\ InName(sub, results[i].test_name)}

\* a hardware rule that takes the Interface Statistics test for critical too
HardwareRule_AnyPhysical(results) == FailedIn(results, "Physical") # {}

\* rule 1: a Physical or Data Link failure is present and some failed Physical
\* test is not the Interface Statistics test
HardwareRule(results) ==
    /\ FailedIn(results, "Physical") # {} \/ FailedIn(results, "Data Link") # {}
    /\ \E i \in FailedIn(results, "Physical") :
           ~InName("Interface Statistics", results[i].test_name)

\* a DNS rule that does not look at the HTTP tests
DnsOnlyRule_IgnoresHttp(results) ==
    /\ FailedIn(results, "Application") # {}
    /\ FailedIn(results, "Transport") = {}
    /\ FailedIn(results, "Network") = {}
    /\ FailedNamed(results, "DNS Resolution") # {}

\* rule 2: only the Application layer fails, with DNS failures and no HTTP failure
DnsOnlyRule(results) ==
    /\ FailedIn(results, "Application") # {}
    /\ FailedIn(results, "Transport") = {}
    /\ FailedIn(results, "Network") = {}
    /\ FailedNamed(results, "DNS Resolution") # {}
    /\ FailedNamed(results, "HTTP Request") = {}

\* a transport rule that needs two failed Transport tests
TransportRule_NeedsTwo(results) == Cardinality(FailedIn(results, "Transport")) > 1

\* a transport rule that looks at the first result only
TransportRule_FirstOnly(results) == 1 \in FailedIn(results, "Transport")

\* rule 3: some Transport test failed
TransportRule(results) == FailedIn(results, "Transport") # {}

\* a network rule that already decides at two ICMP failures
NetworkRule_TwoIcmp(results) ==
    /\ FailedIn(results, "Network") # {}
    /\ \/ Cardinality(FailedNamed(results, "ICMP Ping")) > 1
       \/ FailedNamed(results, "Routing") \cup FailedNamed(results, "IP Configuration") # {}

\* rule 4: Network failures with more than 2 ICMP failures or a routing failure
NetworkRule(results) ==
    /\ FailedIn(results, "Network") # {}
    /\ \/ Cardinality(FailedNamed(results, "ICMP Ping")) > 2
       \/ FailedNamed(results, "Routing") \cup FailedNamed(results, "IP Configuration") # {}

\* a success-rate rule that takes exactly 70% for high
HighSuccessRate_AtLeast(results) ==
    LET total_tests == Len(results)
        failed_tests == Cardinality({i \in DOMAIN results : ~results[i].success})
    IN  total_tests > 0 /\ 10 * (total_tests - failed_tests) >= 7 * total_tests

\* rule 5: success_rate > 0.7, success_rate being 0 for an empty sequence
HighSuccessRate(results) ==
    LET total_tests == Len(results)
        failed_tests == Cardinality({i \in DOMAIN results : ~results[i].success})
    IN  total_tests > 0 /\ 10 * (total_tests - failed_tests) > 7 * total_tests

\* _analyze_reboot_necessity(results, failure_analysis)
AnalyzeRebootNecessity(results) ==
    IF HardwareRule(results) THEN FALSE
    ELSE IF DnsOnlyRule(results) THEN TRUE
    ELSE IF TransportRule(results) THEN TRUE
    ELSE IF NetworkRule(results) THEN TRUE
    ELSE IF HighSuccessRate(results) THEN FALSE
    ELSE TRUE

\* ----------------------------------------------------- one diagnostic run
\* What the network and the alarm do during one run (the inputs of the run):
\*   fail     the tests whose own check fails,
\*   gateway  whether `ip route show default` names a gateway,
\*   alarm    where SIGALRM's TimeoutError (or, for "error", another exception)
\*            is raised: "none"; "outer" in main outside run_network_diagnostics'
\*            try; "glue" inside that try but outside every test's try; "test"
\*            inside the try of test idx; "gateway" inside _get_gateway_ip's try
\*            as called for test idx.
AlarmPoints ==
    {[at |-> a, idx |-> 0] : a \in {"none", "outer", "glue", "error"}}
    \cup {[at |-> "test", idx |-> i] : i \in TestIds}
    \cup {[at |-> "gateway", idx |-> i] : i \in {LocalNetworkTest, GatewayPingTest}}

\* _get_gateway_ip as called by _test_local_network: the first lookup of the run
GatewayAtLocal(env) ==
    env.gateway /\ ~(env.alarm.at = "gateway" /\ env.alarm.idx = LocalNetworkTest)

\* a network layer that pings the gateway target whatever _get_gateway_ip returned
GatewayAtNetwork_Always(env) == env.gateway \/ ~env.gateway

\* _get_gateway_ip as called by _test_network_layer: the cached value, or a
\* second lookup
GatewayAtNetwork(env) ==
    \/ GatewayAtLocal(env)
    \/ env.gateway /\ ~(env.alarm.at = "gateway" /\ env.alarm.idx = GatewayPingTest)

\* `if target:` of _test_network_layer: the gateway ping is skipped without gateway
Started(env, i) == i # GatewayPingTest \/ GatewayAtNetwork(env)

\* the success field of test i: an exception raised inside the test's try,
\* the alarm's TimeoutError included, gives a failed result
TestSuccess(env, i) ==
    /\ i \notin env.fail
    /\ ~(env.alarm.at = "test" /\ env.alarm.idx = i)
    /\ i = LocalNetworkTest => GatewayAtLocal(env)

\* the alarm point is one the run passes
ValidEnv(env) ==
    /\ env.alarm.at = "test" => Started(env, env.alarm.idx)
    /\ (env.alarm.at = "test" /\ env.alarm.idx = LocalNetworkTest) => env.gateway
    /\ (env.alarm.at = "gateway" /\ env.alarm.idx = GatewayPingTest) => ~GatewayAtLocal(env)

DiagnosticResult(env, i) ==
    [layer |-> Battery[i].layer, test_name |-> Battery[i].test_name,
     success |-> TestSuccess(env, i)]

\* run_full_diagnostics: self.results when no exception leaves a test
RunFullDiagnostics(env) ==
    IF GatewayAtNetwork(env)
    THEN [k \in 1..Len(Battery) |-> DiagnosticResult(env, k)]
    ELSE [k \in 1..(Len(Battery) - 1) |->
             DiagnosticResult(env, IF k < GatewayPingTest THEN k ELSE k + 1)]

\* run_network_diagnostics: (should_reboot, results); an exception outside the
\* tests' own handlers is caught at line 236
RunNetworkDiagnostics(env) ==
    IF env.alarm.at \in {"glue", "error"}
    THEN [should_reboot |-> TRUE, results |-> << >>]
    ELSE LET results == RunFullDiagnostics(env)
         IN  [should_reboot |-> AnalyzeRebootNecessity(results), results |-> results]

\* main, lines 781-812: the run under signal.alarm(DIAGNOSTICS_TIMEOUT)
DiagnosticsUnderAlarm(env) ==
    IF env.alarm.at = "outer"
    THEN [should_reboot |-> TRUE, results |-> << >>]
    ELSE RunNetworkDiagnostics(env)

\* history of a run: did the alarm fire, and how many tests were started after it
AlarmFired(env) == env.alarm.at \in {"outer", "glue", "test", "gateway"}

StartedAfterAlarm(env) ==
    IF env.alarm.at \in {"test", "gateway"}
    THEN Cardinality({j \in TestIds : j > env.alarm.idx /\ Started(env, j)})
    ELSE 0

\* the runs explored: at most MaxFailed tests fail on their own
RECURSIVE FailSets(_)
FailSets(k) ==
    IF k = 0 THEN {{}}
    ELSE LET smaller == FailSets(k - 1)
         IN  smaller \cup {S \cup {t} : S \in smaller, t \in TestIds}

DiagEnvs ==
    {env \in [fail : FailSets(MaxFailed), gateway : BOOLEAN, alarm : AlarmPoints] :
        ValidEnv(env)}

\* what the supervisor keeps of a run: the decision, and the history of the alarm
DiagOutcomes ==
    {[should_reboot |-> DiagnosticsUnderAlarm(env).should_reboot,
      fired |-> AlarmFired(env),
      error |-> env.alarm.at = "error",
      continued |-> StartedAfterAlarm(env) > 0,
      aborted |-> DiagnosticsUnderAlarm(env).results = << >>] : env \in DiagEnvs}

\* ------------------------------------------------------------ reboot path
\* What the modem does during one reboot attempt (the inputs of reboot_modem)
RebootInputs ==
    [reachable : BOOLEAN,
     login : {"ok", "none", "raise"},
     status : {"200", "other", "raise"},
     cycle : {"ok", "timeout", "raise"}]

\* a deviating reboot_modem that does not look at the reboot cycle
reboot_modem_NoCycleCheck(in) ==
    IF ~in.reachable THEN "unreachable"
    ELSE IF in.login = "raise" THEN "exception"
    ELSE IF in.login = "none" THEN "login_failed"
    ELSE IF in.status = "raise" THEN "exception"
    ELSE IF in.status = "other" THEN "rejected"
    ELSE "ok"

\* reboot_modem: "ok" for True, the cause of the failure for False
reboot_modem(in) ==
    IF ~in.reachable THEN "unreachable"
    ELSE IF in.login = "raise" THEN "exception"
    ELSE IF in.login = "none" THEN "login_failed"
    ELSE IF in.status = "raise" THEN "exception"
    ELSE IF in.status = "other" THEN "rejected"
    ELSE IF in.cycle = "raise" THEN "exception"
    ELSE IF in.cycle = "timeout" THEN "cycle_timeout"
    ELSE "ok"

\* ------------------------------------------------------------- supervisor
\* no periodic report logged in this iteration; percentages are fractions
\* << numerator, denominator >>
NoReport ==
    [emitted |-> FALSE, outage_percentage |-> << 0, 1 >>,
     availability_percentage |-> << 100, 1 >>, current_outage_duration |-> 0]

\* a report that counts the outage in progress as downtime
LogPeriodicOutageReport_CountsCurrent(total, uptime_seconds, start, t) ==
    LET current_outage_duration == IF start # None THEN t - start ELSE 0
        outage_percentage == IF uptime_seconds > 0
                             THEN << (total + current_outage_duration) * 100, uptime_seconds >>
                             ELSE << 0, 1 >>
    IN  [emitted |-> TRUE, outage_percentage |-> outage_percentage,
         availability_percentage |->
             << 100 * outage_percentage[2] - outage_percentage[1], outage_percentage[2] >>,
         current_outage_duration |-> current_outage_duration]

\* log_periodic_outage_report(total_outage_duration, uptime_seconds,
\* outage_start_time) called at time t: what it logs
LogPeriodicOutageReport(total, uptime_seconds, start, t) ==
    LET current_outage_duration == IF start # None THEN t - start ELSE 0
        outage_percentage == IF uptime_seconds > 0
                             THEN << total * 100, uptime_seconds >>
                             ELSE << 0, 1 >>
    IN  [emitted |-> TRUE, outage_percentage |-> outage_percentage,
         availability_percentage |->
             << 100 * outage_percentage[2] - outage_percentage[1], outage_percentage[2] >>,
         current_outage_duration |-> current_outage_duration]

IterInit ==
    [probe |-> "none", diag |-> 0, fired |-> FALSE, error |-> FALSE,
     continued |-> FALSE, aborted |-> FALSE, should_reboot |-> "unset",
     reboots |-> 0, reboot |-> "none", wait |-> "none", report |-> NoReport]

Init ==
    /\ FAILURE_THRESHOLD \in 0..MaxThreshold
    /\ ENABLE_DIAGNOSTICS \in BOOLEAN
    /\ OUTAGE_REPORT_INTERVAL \in 1..MaxInterval
    /\ pc = "check"
    /\ now = 0
    /\ failure_count = 0
    /\ outage_start_time = None
    /\ total_outage_duration = 0
    /\ last_report_time = 0
    /\ iter = IterInit
    /\ downs = 0
    /\ opened = None
    /\ completed = 0
    /\ original = "unused"
    /\ probe = "unused"
    /\ detector = "unused"
    /\ client = "unused"
    /\ classified = "unused"

\* the ticks a blocking call may take
Ticks == {d \in 0..MaxStep : now + d <= MaxTime}

\* deviating variants of the operators below; each property of the
\* supervisor is also run against one of them to show what it depends on
ThresholdReached_Strict(count) == count > FAILURE_THRESHOLD

ThresholdReached_OneEarly(count) == count + 1 >= FAILURE_THRESHOLD

OutageDuration_SinceEpoch(t, start) == t

CountAfterSkip_AtThreshold == FAILURE_THRESHOLD

OutageStart_Restart(start, t) == t

EvaluationBranch_Always == "diagnose"

CountAfterReboot_Always(result, count) == 0

FinalOutageDuration_Dropped(start, t) == 0

\* `failure_count >= FAILURE_THRESHOLD`
ThresholdReached(count) == count >= FAILURE_THRESHOLD

\* `time.time() - outage_start_time`
OutageDuration(t, start) == t - start

\* `failure_count = FAILURE_THRESHOLD - 1`
CountAfterSkip == FAILURE_THRESHOLD - 1

\* `if outage_start_time is None: outage_start_time = time.time()`
OutageStart(start, t) == IF start = None THEN t ELSE start

\* `if ENABLE_DIAGNOSTICS:` ... `else:` of the threshold branch
EvaluationBranch == IF ENABLE_DIAGNOSTICS THEN "diagnose" ELSE "reboot"

\* failure_count after reboot_modem returned: `failure_count = 0` on True only
CountAfterReboot(result, count) == IF result = "ok" THEN 0 ELSE count

\* final_outage_duration of the KeyboardInterrupt handler
FinalOutageDuration(start, t) == IF start # None THEN OutageDuration(t, start) ELSE 0

\* check_internet returned True: lines 702-708 and, without open outage, 727-734
CheckInternetUp ==
    /\ pc = "check"
    /\ \E d \in Ticks : now' = now + d
    /\ iter' = [IterInit EXCEPT !.probe = "UP"]
    /\ downs' = 0
    /\ opened' = None
    /\ completed' = IF opened # None THEN completed + (now' - opened) ELSE completed
    /\ IF outage_start_time # None
       THEN /\ total_outage_duration' =
                   total_outage_duration + OutageDuration(now', outage_start_time)
            /\ pc' = "resolved"
            /\ UNCHANGED failure_count
       ELSE /\ failure_count' = 0
            /\ pc' = "sleep"
            /\ UNCHANGED total_outage_duration
    /\ UNCHANGED << units, config, outage_start_time, last_report_time >>

\* lines 725-734: the outage is logged as resolved, then cleared
ClearOutage ==
    /\ pc = "resolved"
    /\ outage_start_time' = None
    /\ failure_count' = 0
    /\ pc' = "sleep"
    /\ UNCHANGED << units, config, now, total_outage_duration, last_report_time, iter,
                    downs, opened, completed >>

\* check_internet returned False: lines 735-773
CheckInternetDown ==
    /\ pc = "check"
    /\ downs < MaxDowns
    /\ \E d \in Ticks : now' = now + d
    /\ outage_start_time' = OutageStart(outage_start_time, now')
    /\ failure_count' = failure_count + 1
    /\ iter' = [IterInit EXCEPT !.probe = "DOWN"]
    /\ downs' = downs + 1
    /\ opened' = IF opened = None THEN now' ELSE opened
    /\ pc' = IF ThresholdReached(failure_count')
             THEN EvaluationBranch
             ELSE "sleep"
    /\ UNCHANGED << units, config, total_outage_duration, last_report_time, completed >>

\* lines 774-821 and 853-864: the diagnostic run and the decision
Diagnose ==
    /\ pc = "diagnose"
    /\ \E d \in Ticks : now' = now + d
    /\ \E o \in DiagOutcomes :
          /\ iter' = [iter EXCEPT !.diag = iter.diag + 1,
                                  !.fired = o.fired,
                                  !.error = o.error,
                                  !.continued = o.continued,
                                  !.aborted = o.aborted,
                                  !.should_reboot =
                                      IF o.should_reboot THEN "yes" ELSE "no"]
          /\ IF o.should_reboot
             THEN pc' = "reboot" /\ UNCHANGED failure_count
             ELSE pc' = "half_wait" /\ failure_count' = CountAfterSkip
    /\ UNCHANGED << units, config, outage_start_time, total_outage_duration,
                    last_report_time, downs, opened, completed >>

\* lines 822-852 and 879-909: the reboot attempt and its handling
RebootModem ==
    /\ pc = "reboot"
    /\ \E d \in Ticks : now' = now + d
    /\ \E in \in RebootInputs :
          /\ iter' = [iter EXCEPT !.reboots = iter.reboots + 1,
                                  !.reboot = reboot_modem(in)]
          /\ failure_count' = CountAfterReboot(reboot_modem(in), failure_count)
          /\ pc' = IF reboot_modem(in) = "ok" THEN "recovery_wait" ELSE "sleep"
    /\ UNCHANGED << units, config, outage_start_time, total_outage_duration,
                    last_report_time, downs, opened, completed >>

\* time.sleep(RECOVERY_WAIT), lines 846 and 903
RecoveryWait ==
    /\ pc = "recovery_wait"
    /\ \E d \in Ticks : now' = now + d
    /\ pc' = "sleep"
    /\ iter' = [iter EXCEPT !.wait = "recovery"]
    /\ UNCHANGED << units, config, failure_count, outage_start_time, total_outage_duration,
                    last_report_time, downs, opened, completed >>

\* time.sleep(RECOVERY_WAIT // 2), line 868
HalfWait ==
    /\ pc = "half_wait"
    /\ \E d \in Ticks : now' = now + d
    /\ pc' = "sleep"
    /\ iter' = [iter EXCEPT !.wait = "half"]
    /\ UNCHANGED << units, config, failure_count, outage_start_time, total_outage_duration,
                    last_report_time, downs, opened, completed >>

\* time.sleep(CHECK_INTERVAL), line 913
Sleep ==
    /\ pc = "sleep"
    /\ \E d \in Ticks : now' = now + d
    /\ pc' = "report"
    /\ UNCHANGED << units, config, failure_count, outage_start_time, total_outage_duration,
                    last_report_time, iter, downs, opened, completed >>

\* `current_time - last_report_time >= report_interval`
ReportDue == now - last_report_time >= OUTAGE_REPORT_INTERVAL

\* lines 915-920: the periodic outage report
Report ==
    /\ pc = "report"
    /\ last_report_time' = IF ReportDue THEN now ELSE last_report_time
    /\ iter' = IF ReportDue
               THEN [iter EXCEPT !.report =
                        LogPeriodicOutageReport(total_outage_duration, now,
                                                outage_start_time, now)]
               ELSE iter
    /\ pc' = "check"
    /\ UNCHANGED << units, config, now, failure_count, outage_start_time,
                    total_outage_duration, downs, opened, completed >>

\* lines 922-967: KeyboardInterrupt raised anywhere inside the loop's try
KeyboardInterrupt ==
    /\ pc # "stopped"
    /\ \E d \in Ticks : now' = now + d
    /\ total_outage_duration' =
          total_outage_duration + FinalOutageDuration(outage_start_time, now')
    /\ pc' = "stopped"
    /\ UNCHANGED << units, config, failure_count, outage_start_time, last_report_time,
                    iter, downs, opened, completed >>

Next ==
    \/ CheckInternetUp
    \/ ClearOutage
    \/ CheckInternetDown
    \/ Diagnose
    \/ RebootModem
    \/ RecoveryWait
    \/ HalfWait
    \/ Sleep
    \/ Report
    \/ KeyboardInterrupt

Spec == Init /\ [][Next]_vars

\* ------------------------------------------------------------ properties
\* the current iteration has reached the `if failure_count >= FAILURE_THRESHOLD`
\* branch: diagnostics or a reboot are pending or have run
Evaluated == pc \in {"diagnose", "reboot"} \/ iter.diag > 0 \/ iter.reboots > 0

\* all state updates of the current iteration are done
EndOfIteration == pc \in {"sleep", "report", "check"} /\ iter.probe # "none"

\* the step is a probe that returned DOWN
ProbeDownStep == downs' = downs + 1

\* the step is a reboot attempt
RebootStep == iter'.reboots = iter.reboots + 1

\* the step is a diagnostic run
DiagnoseStep == iter'.diag = iter.diag + 1

\* C1: with FAILURE_THRESHOLD = T >= 1, no iteration before the T-th
\* consecutive DOWN probe evaluates diagnostics/reboot, the iteration of the
\* T-th consecutive DOWN probe does, and an iteration whose probe was UP ends
\* with failure_count = 0 (so T further DOWN probes are needed).
C1_EvaluationAtThreshold ==
    FAILURE_THRESHOLD >= 1 =>
        /\ downs < FAILURE_THRESHOLD => ~Evaluated
        /\ (downs = FAILURE_THRESHOLD /\ pc # "stopped") => Evaluated
        /\ (EndOfIteration /\ iter.probe = "UP") => failure_count = 0

C1_Witness ==
    /\ FAILURE_THRESHOLD = 2
    /\ downs = 2
    /\ Evaluated
    /\ completed > 0

\* C2: at the end of every loop iteration outage_start_time is set iff the
\* probe of the iteration was DOWN, and when set it is the time of the first
\* DOWN probe of the outage: later DOWN probes and reboot attempts, successful
\* or failed, keep it; an UP probe clears it.
C2_OutageStartTracksProbe ==
    EndOfIteration =>
        /\ outage_start_time # None <=> iter.probe = "DOWN"
        /\ outage_start_time = opened

C2_Witness ==
    /\ pc = "sleep"
    /\ iter.reboots = 1
    /\ downs >= 2
    /\ outage_start_time # None
    /\ outage_start_time < now

\* C3: while the supervisor runs, total_outage_duration is the sum over the
\* completed outages of (time of the resolving UP probe - time the outage
\* started), an outage in progress contributes nothing, and
\* total_outage_duration never decreases.
C3_TotalIsSumOfCompletedOutages ==
    /\ [](pc # "stopped" => total_outage_duration = completed)
    /\ [][total_outage_duration' >= total_outage_duration]_vars

C3_Witness ==
    /\ pc # "stopped"
    /\ total_outage_duration = 2
    /\ opened # None
    /\ now > opened

\* the reboot attempt of the current iteration returned False
RebootFailed == iter.reboots > 0 /\ iter.reboot # "ok"

\* C4: a successful reboot attempt sets failure_count to 0 and is followed by
\* the recovery wait before anything else (no probe is made in between); a
\* failed attempt leaves failure_count unchanged, goes on with the loop, and
\* the next probe, if DOWN, evaluates again.
C4_RebootOutcomeHandling ==
    /\ [][RebootStep =>
            IF iter'.reboot = "ok"
            THEN failure_count' = 0 /\ pc' = "recovery_wait"
            ELSE failure_count' = failure_count /\ pc' = "sleep"]_vars
    /\ []((iter.reboot = "ok" /\ pc \in {"sleep", "report", "check"})
             => iter.wait = "recovery")
    /\ [][(RebootFailed /\ ProbeDownStep) => pc' \in {"diagnose", "reboot"}]_vars

C4_Witness ==
    /\ FAILURE_THRESHOLD = 2
    /\ pc = "reboot"
    /\ iter.should_reboot = "yes"
    /\ downs = FAILURE_THRESHOLD + 1
    /\ failure_count = FAILURE_THRESHOLD + 1

\* C5: a diagnostic run that classifies "no reboot" sets failure_count to
\* FAILURE_THRESHOLD - 1 and goes to the shortened wait, no reboot is
\* attempted in that iteration, and the next probe, if DOWN, runs diagnostics
\* again.
C5_SkipKeepsCountBelowThreshold ==
    /\ [][(DiagnoseStep /\ iter'.should_reboot = "no") =>
            /\ failure_count' = FAILURE_THRESHOLD - 1
            /\ pc' = "half_wait"]_vars
    /\ [](iter.should_reboot = "no" =>
            iter.reboots = 0 /\ pc \notin {"reboot", "recovery_wait"})
    /\ [][(iter.should_reboot = "no" /\ ProbeDownStep) => pc' = "diagnose"]_vars

C5_Witness ==
    /\ FAILURE_THRESHOLD = 2
    /\ pc = "diagnose"
    /\ downs = FAILURE_THRESHOLD + 1
    /\ failure_count = FAILURE_THRESHOLD

\* C6: whenever the diagnostics alarm fired during the run, or the run failed
\* with an internal error, the iteration proceeds with should_reboot = True.
C6_TimeoutOrErrorMeansReboot ==
    (iter.diag > 0 /\ (iter.fired \/ iter.error)) => iter.should_reboot = "yes"

\* C7: once the diagnostics alarm has fired during a run, no further test of
\* that run is started and the run ends as a diagnostic failure.
C7_TimeoutStopsBattery ==
    (iter.diag > 0 /\ iter.fired) => (~iter.continued /\ iter.aborted)

\* C8: with ENABLE_DIAGNOSTICS false no diagnostic run ever happens; every
\* iteration whose DOWN probe brings failure_count to FAILURE_THRESHOLD or
\* more attempts exactly one reboot, and the attempt is handled as with
\* diagnostics: success resets failure_count and waits for recovery, failure
\* leaves failure_count unchanged.
C8_DisabledDiagnosticsRebootsAtThreshold ==
    /\ [](~ENABLE_DIAGNOSTICS =>
            /\ iter.diag = 0
            /\ iter.should_reboot = "unset"
            /\ pc \notin {"diagnose", "half_wait"})
    /\ [][(~ENABLE_DIAGNOSTICS /\ ProbeDownStep) =>
            IF failure_count + 1 >= FAILURE_THRESHOLD
            THEN pc' = "reboot"
            ELSE pc' = "sleep"]_vars
    /\ [][(~ENABLE_DIAGNOSTICS /\ pc = "reboot" /\ pc' # "stopped") =>
            /\ iter'.reboots = 1
            /\ IF iter'.reboot = "ok"
               THEN failure_count' = 0 /\ pc' = "recovery_wait"
               ELSE failure_count' = failure_count /\ pc' = "sleep"]_vars

C8_Witness ==
    /\ ~ENABLE_DIAGNOSTICS
    /\ FAILURE_THRESHOLD = 2
    /\ downs = 2
    /\ iter.reboot = "ok"
    /\ iter.wait = "recovery"
    /\ failure_count = 0
    /\ pc = "check"

\* some step of the reboot path did not succeed
RebootPathFailure(in) ==
    \/ ~in.reachable
    \/ in.login # "ok"
    \/ in.status # "200"
    \/ in.cycle # "ok"

\* reboot_modem returns False for every failing input, and every cause occurs
FailuresReported ==
    /\ \A in \in RebootInputs : RebootPathFailure(in) => reboot_modem(in) # "ok"
    /\ \A cause \in {"unreachable", "login_failed", "rejected", "cycle_timeout",
                     "exception"} :
          \E in \in RebootInputs : reboot_modem(in) = cause

\* C9: whatever fails on the reboot path (modem unreachable, login failure,
\* rejected command, reboot cycle timeout, exception of a network call), the
\* attempt does not report success, and after a failed attempt the loop goes
\* on towards its next probe, which it is able to make.
C9_RebootFailureIsContained ==
    /\ FailuresReported
    /\ (RebootFailed /\ pc # "stopped") =>
          /\ pc \in {"sleep", "report", "check"}
          /\ ENABLED (Sleep \/ Report \/ CheckInternetUp)

C9_Witness ==
    /\ iter.reboot = "cycle_timeout"
    /\ pc = "check"
    /\ failure_count >= FAILURE_THRESHOLD

\* C10: nothing happens after the interruption; the interrupting step adds
\* the elapsed part of an outage in progress (outage_start_time set) to
\* total_outage_duration and leaves the total as it is otherwise.
C10_InterruptFoldsOpenOutage ==
    /\ [][pc = "stopped" => UNCHANGED vars]_vars
    /\ [][(pc # "stopped" /\ pc' = "stopped") =>
            total_outage_duration' =
               IF outage_start_time # None
               THEN total_outage_duration + (now' - outage_start_time)
               ELSE total_outage_duration]_vars

C10_Witness ==
    /\ pc = "stopped"
    /\ iter.probe = "DOWN"
    /\ outage_start_time # None
    /\ total_outage_duration > completed

\* ================================================== wait_for_reboot_cycle
\* largest max_time_seconds explored, in ticks
MaxWindow == 4
\* largest poll_seconds explored, in ticks
MaxPollSeconds == 1

\* the supervisor's variables while a function is analysed on its own
SupervisorUnused ==
    /\ FAILURE_THRESHOLD = 1
    /\ ENABLE_DIAGNOSTICS = FALSE
    /\ OUTAGE_REPORT_INTERVAL = 1
    /\ pc = "unused"
    /\ now = 0
    /\ failure_count = 0
    /\ outage_start_time = None
    /\ total_outage_duration = 0
    /\ last_report_time = 0
    /\ iter = IterInit
    /\ downs = 0
    /\ opened = None
    /\ completed = 0

\* the call wait_for_reboot_cycle(host, verify, poll_seconds, max_time_seconds);
\* elapsed is time.time() - t_start, polls the history of the polls made
CycleInit ==
    /\ SupervisorUnused
    /\ original = "unused"
    /\ probe = "unused"
    /\ client = "unused"
    /\ classified = "unused"
    /\ \E m \in 1..MaxWindow, p \in 1..MaxPollSeconds :
          detector = [pc |-> "while", max_time_seconds |-> m, poll_seconds |-> p,
                      elapsed |-> 0, drop_detected |-> FALSE, polls |-> << >>,
                      result |-> "none"]

\* a detector that takes any reachable poll for the recovery
CycleDecision_NoDropNeeded(drop_detected, reachable) ==
    IF reachable THEN "return" ELSE "drop"

\* lines 52-59: what one poll leads to
CycleDecision(drop_detected, reachable) ==
    IF ~drop_detected
    THEN IF ~reachable THEN "drop" ELSE "next"
    ELSE IF reachable THEN "return" ELSE "next"

\* `while time.time() - t_start < max_time_seconds:` and, on exit, `return False`
CycleWhile ==
    /\ detector.pc = "while"
    /\ detector' = IF detector.elapsed < detector.max_time_seconds
                   THEN [detector EXCEPT !.pc = "poll"]
                   ELSE [detector EXCEPT !.pc = "done", !.result = "False"]
    /\ UNCHANGED << supervisor, original, probe, client, classified >>

\* lines 43-59: requests.head with its 3 s timeout, then the decision
CyclePoll ==
    /\ detector.pc = "poll"
    /\ \E d \in 0..MaxStep, reachable \in BOOLEAN :
          LET decision == CycleDecision(detector.drop_detected, reachable)
          IN  detector' =
                 [detector EXCEPT
                     !.elapsed = @ + d,
                     !.polls = Append(@, [started |-> detector.elapsed,
                                          reachable |-> reachable]),
                     !.drop_detected = @ \/ decision = "drop",
                     !.pc = IF decision = "return" THEN "done" ELSE "sleep",
                     !.result = IF decision = "return" THEN "True" ELSE @]
    /\ UNCHANGED << supervisor, original, probe, client, classified >>

\* `time.sleep(poll_seconds)`
CycleSleep ==
    /\ detector.pc = "sleep"
    /\ detector' = [detector EXCEPT !.elapsed = @ + detector.poll_seconds,
                                    !.pc = "while"]
    /\ UNCHANGED << supervisor, original, probe, client, classified >>

CycleNext ==
    \/ CycleWhile
    \/ CyclePoll
    \/ CycleSleep

CycleSpec == CycleInit /\ [][CycleNext]_vars

\* the reachability the polls found, in order
Reachability == [i \in DOMAIN detector.polls |-> detector.polls[i].reachable]

\* some poll found the modem unreachable and a strictly later one reachable
DropThenRecovery ==
    \E i, j \in DOMAIN detector.polls :
        i < j /\ ~detector.polls[i].reachable /\ detector.polls[j].reachable

\* C11: wait_for_reboot_cycle returns True iff some poll found the modem
\* unreachable and a strictly later poll found it reachable, every poll
\* having started inside the window; reachable polls before the first drop
\* do not count.
C11_SuccessIffDropThenRecovery ==
    detector.pc = "done" =>
        /\ detector.result = "True" <=> DropThenRecovery
        /\ \A i \in DOMAIN detector.polls :
              detector.polls[i].started < detector.max_time_seconds

C11_Witness ==
    /\ detector.pc = "done"
    /\ detector.result = "True"
    /\ Reachability = << TRUE, FALSE, FALSE, TRUE >>

\* C12: once max_time_seconds have elapsed without a recovery observed the
\* detector returns False: True is never returned at or after the deadline,
\* and an all-reachable or all-unreachable poll sequence returns False.
C12_NoSuccessAfterDeadline ==
    detector.pc = "done" =>
        /\ detector.result = "True" => detector.elapsed < detector.max_time_seconds
        /\ (\A i \in DOMAIN Reachability : Reachability[i]) => detector.result = "False"
        /\ (\A i \in DOMAIN Reachability : ~Reachability[i]) => detector.result = "False"

\* =========================================== reboot_modem and SurfboardHNAP
\* Python's `not x` for a value of a JSON object: absent (None) or empty
Falsy(x) == x \in {"None", ""}

\* hmac.new(key, msg, hashlib.md5).hexdigest().upper(), uninterpreted
HmacMd5(key, msg) == << "HMAC-MD5", key, msg >>

\* a key derivation whose passkey is not chained on the privatekey
GenerateKeys_Unchained(challenge, pubkey, password) ==
    [privatekey |-> HmacMd5(<< pubkey, password >>, challenge),
     passkey |-> HmacMd5(<< pubkey, password >>, challenge)]

\* generate_keys(challenge, pubkey, password)
GenerateKeys(challenge, pubkey, password) ==
    LET privatekey == HmacMd5(<< pubkey, password >>, challenge)
    IN  [privatekey |-> privatekey, passkey |-> HmacMd5(privatekey, challenge)]

\* most milliseconds that pass between two readings of the clock
MaxMillis == 1

\* an auth header computed for the time the client was created
GenerateHnapAuth_Stale(privkey, operation, curtime) ==
    << HmacMd5(privkey, << curtime - curtime, operation >>), curtime - curtime >>

\* generate_hnap_auth(operation) with self.privatekey = privkey and
\* str(int(time.time() * 1000)) = curtime: the digest over curtime followed by
\* the operation's URI, a space, curtime
GenerateHnapAuth(privkey, operation, curtime) ==
    << HmacMd5(privkey, << curtime, operation >>), curtime >>

\* the LoginResponse objects a modem may answer Login:request with
LoginResponses ==
    [Cookie : {"None", "", "uid-1"},
     PublicKey : {"None", "", "pub-1"},
     Challenge : {"None", "", "chal-1"}]

\* self.privatekey = None
NoKey == << >>

\* no LoginResponse received, or one without any field
NoLoginResponse == [Cookie |-> "None", PublicKey |-> "None", Challenge |-> "None"]

\* no response to Login:login received
NoResponse == [status_code |-> "None", LoginResult |-> "None"]

\* the callers of the client: reboot_modem of the supervisor, and the
\* __main__ block of modem_reboot.py without and with --dryrun
Callers ==
    {[caller |-> "reboot_modem", dryrun |-> FALSE],
     [caller |-> "__main__", dryrun |-> FALSE],
     [caller |-> "__main__", dryrun |-> TRUE]}

\* the client of one reboot_modem call (or one run of __main__):
\* SurfboardHNAP.__init__ (lines 74-96), the millisecond clock, and the
\* history of the call: steps made, generate_hnap_auth calls (signed), the
\* LoginPassword sent, what login and reboot_modem returned
ClientInit ==
    /\ SupervisorUnused
    /\ original = "unused"
    /\ probe = "unused"
    /\ detector = "unused"
    /\ classified = "unused"
    /\ \E noverify \in BOOLEAN, by \in Callers :
          client = [pc |-> "check_host", noverify |-> noverify, password |-> "pw",
                    caller |-> by.caller, dryrun |-> by.dryrun, now |-> 0,
                    passkey |-> NoKey, signed |-> << >>,
                    privatekey |-> NoKey, cookie_id |-> "None",
                    cookies |-> [uid |-> "None", PrivateKey |-> NoKey],
                    scheme |-> "None", r1 |-> "None", lr1 |-> NoLoginResponse,
                    r2 |-> NoResponse, reboot_resp |-> "None", cycle |-> "None",
                    steps |-> << >>, login |-> "pending", result |-> "pending"]

\* one more step in the history
Step(op, ok) == Append(client.steps, [op |-> op, ok |-> ok])

\* reboot_modem returns False: login returned None, or a request was refused
ReturnFalse(c) == [c EXCEPT !.pc = "done", !.result = "False"]

\* an exception leaves login or reboot; `except Exception` of reboot_modem
Raised(c) == [c EXCEPT !.pc = "done", !.result = "False",
                       !.login = IF @ = "pending" THEN "raise" ELSE @]

\* a caller that goes on to the reboot command after a failed login
LoginFailed_GoesOn(c) == [c EXCEPT !.login = "None", !.pc = "reboot"]

\* login returns None, and reboot_modem returns False for it (lines 425-428)
LoginFailed(c) == ReturnFalse([c EXCEPT !.login = "None"])

\* one call of generate_hnap_auth(operation) at clock reading curtime; with
\* self.privatekey None the call raises at privkey.encode() (auth << >>)
Signed(c, operation, curtime) ==
    [c EXCEPT !.now = curtime,
              !.signed = Append(@, [operation |-> operation,
                                    privkey |-> c.privatekey,
                                    curtime |-> curtime,
                                    login |-> c.login,
                                    auth |-> IF c.privatekey = NoKey THEN << >>
                                             ELSE GenerateHnapAuth(c.privatekey,
                                                                   operation, curtime)])]

\* reboot_modem, lines 407-412: is_host_reachable(host, port=443)
RebootCheckHost ==
    /\ client.pc = "check_host"
    /\ \E reachable \in BOOLEAN :
          client' = IF reachable
                    THEN [client EXCEPT !.pc = "login",
                                        !.steps = Step("is_host_reachable", TRUE)]
                    ELSE ReturnFalse([client EXCEPT
                                        !.steps = Step("is_host_reachable", FALSE)])
    /\ UNCHANGED << supervisor, original, probe, detector, classified >>

\* a login that goes on whatever a step returned
StepContinues_Always(ok) == TRUE

\* `if not <step>: return None` of login: the next step needs this one's success
StepContinues(ok) == ok

\* login, lines 271-276: is_host_reachable(host, port=443)
LoginCheckHost ==
    /\ client.pc = "login"
    /\ \E reachable \in BOOLEAN :
          LET c == [client EXCEPT !.steps = Step("login.is_host_reachable", reachable)]
          IN  client' = IF StepContinues(reachable)
                        THEN [c EXCEPT !.pc = "fetch"]
                        ELSE LoginFailed(c)
    /\ UNCHANGED << supervisor, original, probe, detector, classified >>

\* login_html_form, lines 117-132: GET /Login.html over https, then http,
\* until one answers 200 or the 90 s window is over
LoginFetchPage ==
    /\ client.pc = "fetch"
    /\ \E fetch_ok \in {"https", "http", "None"} :
          LET c == [client EXCEPT !.steps = Step("GET Login.html", fetch_ok # "None"),
                                  !.scheme = fetch_ok]
          IN  client' = IF StepContinues(fetch_ok # "None")
                        THEN [c EXCEPT !.pc = "post"]
                        ELSE LoginFailed(c)
    /\ UNCHANGED << supervisor, original, probe, detector, classified >>

\* login_html_form, lines 134-161: POST the credentials until 200 or the
\* 30 s window is over
LoginPostCredentials ==
    /\ client.pc = "post"
    /\ \E ok \in BOOLEAN :
          LET c == [client EXCEPT !.steps = Step("POST MotoLogin", ok)]
          IN  client' = IF StepContinues(ok)
                        THEN [c EXCEPT !.pc = "login_request"]
                        ELSE LoginFailed(c)
    /\ UNCHANGED << supervisor, original, probe, detector, classified >>

\* a check of the LoginResponse that forgets the Challenge
FieldsPresent_NoChallenge(lr1) == ~Falsy(lr1.Cookie) /\ ~Falsy(lr1.PublicKey)

\* `if not cookie_id or not pubkey or not challenge: return None`, negated
FieldsPresent(lr1) ==
    ~Falsy(lr1.Cookie) /\ ~Falsy(lr1.PublicKey) /\ ~Falsy(lr1.Challenge)

\* the answers to Login:request: an exception of the POST, or a status with a
\* body that is not JSON or carries a LoginResponse
RequestAnswers ==
    {[kind |-> k, lr1 |-> NoLoginResponse] : k \in {"raise", "status", "nonjson"}}
    \cup {[kind |-> "json", lr1 |-> lr1] : lr1 \in LoginResponses}

\* login, lines 282-303: _login_request, the status, the JSON body, the fields
LoginRequest ==
    /\ client.pc = "login_request"
    /\ \E a \in RequestAnswers :
          LET ok == a.kind = "json" /\ FieldsPresent(a.lr1)
              c == [client EXCEPT !.steps = Step("Login:request", ok),
                                  !.r1 = a.kind,
                                  !.lr1 = a.lr1]
          IN  client' = IF a.kind = "raise" THEN Raised(c)
                        ELSE IF a.kind \in {"status", "nonjson"} THEN LoginFailed(c)
                        ELSE IF StepContinues(FieldsPresent(a.lr1))
                             THEN [c EXCEPT !.pc = "login_real"]
                             ELSE LoginFailed(c)
    /\ UNCHANGED << supervisor, original, probe, detector, classified >>

\* the answers to Login:login
RealAnswers ==
    {[kind |-> k, r2 |-> NoResponse] : k \in {"raise"}}
    \cup {[kind |-> "status", r2 |-> [status_code |-> "500", LoginResult |-> res]] :
             res \in {"OK", "None"}}
    \cup {[kind |-> "nonjson", r2 |-> [status_code |-> "200", LoginResult |-> "None"]]}
    \cup {[kind |-> "json", r2 |-> [status_code |-> "200", LoginResult |-> res]] :
             res \in {"OK", "FAILED", "None"}}

\* a login that accepts any JSON answer with status 200
LoginAccepted_StatusOnly(a) == a.kind = "json"

\* lines 309-323: status 200, a JSON body, LoginResult == "OK"
LoginAccepted(a) ==
    /\ a.kind = "json"
    /\ a.r2.status_code = "200"
    /\ a.r2.LoginResult = "OK"

\* login, lines 306-326: generate_keys, the uid and PrivateKey cookies,
\* _login_real and the check of its answer
LoginReal ==
    /\ client.pc = "login_real"
    /\ \E a \in RealAnswers, ms \in 0..MaxMillis :
          LET keys == GenerateKeys(client.lr1.Challenge, client.lr1.PublicKey,
                                   client.password)
              derived == [client EXCEPT
                             !.privatekey = keys.privatekey,
                             !.cookies = [uid |-> client.lr1.Cookie,
                                          PrivateKey |-> keys.privatekey],
                             !.passkey = keys.passkey]
              c == [Signed(derived, "Login", client.now + ms) EXCEPT
                       !.steps = Step("Login:login", LoginAccepted(a)),
                       !.r2 = a.r2]
          IN  client' = IF a.kind = "raise" THEN Raised(c)
                        ELSE IF LoginAccepted(a)
                             THEN [c EXCEPT !.cookie_id = client.lr1.Cookie,
                                            !.login = "r2",
                                            !.pc = IF client.caller = "__main__"
                                                   THEN "status" ELSE "reboot"]
                             ELSE LoginFailed(c)
    /\ UNCHANGED << supervisor, original, probe, detector, classified >>

\* __main__, lines 457-464 and 486-491: h.get_status() before the reboot
\* command (then --dryrun exits) and, inside a try, after the reboot cycle
GetStatus ==
    /\ client.pc \in {"status", "post_status"}
    /\ \E answer \in {"200", "500", "raise"}, ms \in 0..MaxMillis :
          LET c == [Signed(client, "GetMultipleHNAPs", client.now + ms) EXCEPT
                       !.steps = Step("GetMultipleHNAPs", answer = "200")]
          IN  client' = IF client.pc = "post_status"
                        THEN [c EXCEPT !.pc = "done", !.result = "True"]
                        ELSE IF answer = "raise" \/ c.privatekey = NoKey THEN Raised(c)
                        ELSE IF client.dryrun
                             THEN [c EXCEPT !.pc = "done", !.result = "dryrun"]
                             ELSE [c EXCEPT !.pc = "reboot"]
    /\ UNCHANGED << supervisor, original, probe, detector, classified >>

\* a reboot_modem that waits for the cycle whatever the modem answered
RebootAccepted_Always(status_code) == TRUE

\* `if reboot_resp.status_code != 200: return False`, negated
RebootAccepted(status_code) == status_code = "200"

\* reboot_modem, lines 430-449: h.reboot() and the check of its status
RebootCommand ==
    /\ client.pc = "reboot"
    /\ \E status_code \in {"200", "500", "raise"}, ms \in 0..MaxMillis :
          LET c == [Signed(client, "SetStatusSecuritySettings", client.now + ms) EXCEPT
                       !.steps = Step("SetStatusSecuritySettings", status_code = "200"),
                       !.reboot_resp = status_code]
          IN  client' = IF status_code = "raise" \/ c.privatekey = NoKey THEN Raised(c)
                        ELSE IF RebootAccepted(status_code)
                             THEN [c EXCEPT !.pc = "cycle"]
                             ELSE ReturnFalse(c)
    /\ UNCHANGED << supervisor, original, probe, detector, classified >>

\* reboot_modem, lines 453-472: wait_for_reboot_cycle and the result; the
\* wait takes time
RebootWaitCycle ==
    /\ client.pc = "cycle"
    /\ \E cycle \in {"True", "False", "raise"} :
          LET c == [client EXCEPT
                       !.steps = Step("wait_for_reboot_cycle", cycle = "True"),
                       !.cycle = cycle,
                       !.now = @ + 1]
          IN  client' = IF cycle = "raise" THEN Raised(c)
                        ELSE IF cycle = "True"
                             THEN IF client.caller = "__main__"
                                  THEN [c EXCEPT !.pc = "post_status"]
                                  ELSE [c EXCEPT !.pc = "done", !.result = "True"]
                             ELSE ReturnFalse(c)
    /\ UNCHANGED << supervisor, original, probe, detector, classified >>

ClientNext ==
    \/ RebootCheckHost
    \/ LoginCheckHost
    \/ LoginFetchPage
    \/ LoginPostCredentials
    \/ LoginRequest
    \/ LoginReal
    \/ GetStatus
    \/ RebootCommand
    \/ RebootWaitCycle

ClientSpec == ClientInit /\ [][ClientNext]_vars

\* the step op was made
Made(op) == \E i \in DOMAIN client.steps : client.steps[i].op = op

\* C13: reboot_modem returns True only if SetStatusSecuritySettings was
\* answered with status 200 and wait_for_reboot_cycle, called after it,
\* returned True; another status returns False without calling
\* wait_for_reboot_cycle, which is only ever called right after an accepted
\* reboot command.
C13_RebootSuccessNeedsAcceptAndCycle ==
    /\ client.result = "True" => client.reboot_resp = "200" /\ client.cycle = "True"
    /\ client.reboot_resp = "500" =>
          client.result = "False" /\ ~Made("wait_for_reboot_cycle")
    /\ \A i \in DOMAIN client.steps :
          client.steps[i].op = "wait_for_reboot_cycle" =>
              /\ i > 1
              /\ client.steps[i - 1] = [op |-> "SetStatusSecuritySettings", ok |-> TRUE]

C13_Witness ==
    /\ client.result = "True"
    /\ Made("wait_for_reboot_cycle")

\* the steps of login, in the order of its code
LoginOrder ==
    << "login.is_host_reachable", "GET Login.html", "POST MotoLogin",
       "Login:request", "Login:login" >>

IsLoginStep(st) == \E k \in DOMAIN LoginOrder : st.op = LoginOrder[k]

LoginSteps == SelectSeq(client.steps, IsLoginStep)

\* C14: the steps login makes are a prefix of: reachability check on port
\* 443, Login.html fetch, credential POST, Login:request, Login:login; a step
\* is made only if every earlier one succeeded, and login returns a response
\* only after all five succeeded.
C14_LoginStepsInOrder ==
    /\ Len(LoginSteps) <= Len(LoginOrder)
    /\ \A i \in DOMAIN LoginSteps :
          /\ LoginSteps[i].op = LoginOrder[i]
          /\ i < Len(LoginSteps) => LoginSteps[i].ok
    /\ client.login = "r2" =>
          /\ Len(LoginSteps) = Len(LoginOrder)
          /\ \A i \in DOMAIN LoginSteps : LoginSteps[i].ok

C14_Witness ==
    /\ client.login = "None"
    /\ Len(LoginSteps) = 3
    /\ ~LoginSteps[3].ok

\* C15: when the answer to Login:request is not JSON, or Cookie, PublicKey or
\* Challenge is missing or empty, login returns None with no key derived, no
\* uid or PrivateKey cookie attached and no Login:login sent.
C15_MalformedLoginResponseStopsLogin ==
    (\/ client.r1 = "nonjson"
     \/ client.r1 = "json" /\ (\/ Falsy(client.lr1.Cookie)
                               \/ Falsy(client.lr1.PublicKey)
                               \/ Falsy(client.lr1.Challenge)))
    => /\ client.login = "None"
       /\ client.privatekey = NoKey
       /\ client.cookies = [uid |-> "None", PrivateKey |-> NoKey]
       /\ ~Made("Login:login")

C15_Witness ==
    /\ client.r1 = "json"
    /\ client.lr1 = [Cookie |-> "uid-1", PublicKey |-> "pub-1", Challenge |-> ""]
    /\ client.pc = "done"

\* C16: login returns a response only if Login:login was answered with
\* status 200 and LoginResult "OK"; any other answer makes it fail, and
\* cookie_id is set only when login returns a response.
C16_LoginSuccessNeedsOk ==
    /\ client.login = "r2" =>
          client.r2.status_code = "200" /\ client.r2.LoginResult = "OK"
    /\ (Made("Login:login") /\ ~(client.r2.status_code = "200"
                               /\ client.r2.LoginResult = "OK")) =>
          client.login \in {"None", "raise"}
    /\ client.cookie_id # "None" => client.login = "r2"

C16_Witness ==
    /\ client.login = "r2"
    /\ client.cookie_id = "uid-1"

\* C17: after a login that failed at any step the client holds no derived
\* privatekey and no uid or PrivateKey cookie.
C17_FailedLoginLeavesNoKey ==
    client.login \in {"None", "raise"} =>
        /\ client.privatekey = NoKey
        /\ client.cookies = [uid |-> "None", PrivateKey |-> NoKey]

\* ============================================== _analyze_reboot_necessity
\* most failed tests of a classified run
MaxClassifiedFailed == 3

\* a run of the battery without alarm, not yet classified
ClassifyInit ==
    /\ SupervisorUnused
    /\ original = "unused"
    /\ probe = "unused"
    /\ detector = "unused"
    /\ client = "unused"
    /\ \E fail \in FailSets(MaxClassifiedFailed), gateway \in BOOLEAN :
          classified = [pc |-> "run", fail |-> fail, gateway |-> gateway,
                        results |-> << >>, should_reboot |-> "unset"]

\* run_network_diagnostics, lines 195-234: the battery and its classification
Classify ==
    /\ classified.pc = "run"
    /\ LET env == [fail |-> classified.fail, gateway |-> classified.gateway,
                   alarm |-> [at |-> "none", idx |-> 0]]
           run == RunNetworkDiagnostics(env)
       IN  classified' = [classified EXCEPT !.pc = "done",
                                            !.results = run.results,
                                            !.should_reboot = run.should_reboot]
    /\ UNCHANGED << supervisor, original, probe, detector, client >>

ClassifyNext == Classify

ClassifySpec == ClassifyInit /\ [][ClassifyNext]_vars

\* the failed results of the classified run
Failures == {i \in DOMAIN classified.results : ~classified.results[i].success}

\* some failed result is of this layer
LayerFailed(layer) == \E i \in Failures : classified.results[i].layer = layer

\* some failed result is of this test family
FamilyFailed(family) == \E i \in Failures : classified.results[i].test_name[1] = family

\* a failed Physical test other than Interface Statistics
CriticalPhysicalFailure ==
    \E i \in Failures :
        /\ classified.results[i].layer = "Physical"
        /\ classified.results[i].test_name[1] # "Interface Statistics"

\* C18: a failed Data Link test (ARP Table or Local Network) makes the
\* classification False, whatever the other layers' results.
C18_DataLinkFailureMeansNoReboot ==
    (classified.pc = "done" /\ LayerFailed("Data Link")) =>
        classified.should_reboot = FALSE

\* C19: a failed Physical test other than Interface Statistics makes the
\* classification False whatever the other layers' results; a failed
\* Interface Statistics test alone does not: with a Transport failure beside
\* it the classification is still True.
C19_CriticalPhysicalFailureMeansNoReboot ==
    classified.pc = "done" =>
        /\ CriticalPhysicalFailure => classified.should_reboot = FALSE
        /\ (/\ FamilyFailed("Interface Statistics")
            /\ ~CriticalPhysicalFailure
            /\ LayerFailed("Transport"))
           => classified.should_reboot = TRUE

C19_Witness ==
    /\ classified.pc = "done"
    /\ CriticalPhysicalFailure
    /\ LayerFailed("Transport")
    /\ LayerFailed("Application")

\* more than 70% of the results of the classified run are successes
PassRateAbove70 ==
    10 * (Len(classified.results) - Cardinality(Failures)) > 7 * Len(classified.results)

\* C20: without critical Physical failure and without Transport or Network
\* failure, a run whose failed Application tests are DNS Resolution tests
\* only is classified True, also when more than 70% of the tests passed; when
\* an HTTP Request test failed as well the DNS rule does not decide and the
\* later rules do (here the pass rate: False above 70%, True otherwise).
C20_DnsOnlyRuleBeforeSuccessRate ==
    (/\ classified.pc = "done"
     /\ ~CriticalPhysicalFailure
     /\ ~LayerFailed("Transport")
     /\ ~LayerFailed("Network")
     /\ FamilyFailed("DNS Resolution"))
    => IF ~FamilyFailed("HTTP Request")
       THEN classified.should_reboot = TRUE
       ELSE classified.should_reboot = ~PassRateAbove70

C20_Witness ==
    /\ classified.pc = "done"
    /\ FamilyFailed("DNS Resolution")
    /\ \A i \in Failures : classified.results[i].test_name[1] = "DNS Resolution"
    /\ PassRateAbove70
    /\ classified.should_reboot = TRUE

\* C21: without critical Physical failure, a run with a failed Transport test
\* is classified True, whatever the pass rate and whatever the Network and
\* Application results.
C21_TransportFailureMeansReboot ==
    (/\ classified.pc = "done"
     /\ ~CriticalPhysicalFailure
     /\ LayerFailed("Transport"))
    => classified.should_reboot = TRUE

C21_Witness ==
    /\ classified.pc = "done"
    /\ ~CriticalPhysicalFailure
    /\ Cardinality(Failures) = 1
    /\ LayerFailed("Transport")
    /\ PassRateAbove70
    /\ classified.should_reboot = TRUE

\* the failed ICMP Ping results of the classified run
IcmpFailures == {i \in Failures : classified.results[i].test_name[1] = "ICMP Ping"}

\* C22: without critical Physical failure and without Transport failure, a
\* run with Network failures is classified True when at least three ICMP
\* Ping tests failed or the Routing Table or IP Configuration test failed;
\* with one or two failed ICMP Ping tests only, the pass rate decides (False
\* above 70%, True otherwise).
C22_NetworkRuleNeedsThreeIcmpOrRouting ==
    (/\ classified.pc = "done"
     /\ ~CriticalPhysicalFailure
     /\ ~LayerFailed("Transport")
     /\ LayerFailed("Network"))
    => IF \/ Cardinality(IcmpFailures) >= 3
          \/ FamilyFailed("Routing Table")
          \/ FamilyFailed("IP Configuration")
       THEN classified.should_reboot = TRUE
       ELSE classified.should_reboot = ~PassRateAbove70

C22_Witness ==
    /\ classified.pc = "done"
    /\ Cardinality(Failures) = 2
    /\ Cardinality(IcmpFailures) = 2
    /\ PassRateAbove70
    /\ classified.should_reboot = FALSE

\* ------------------------------- classification of a given result sequence
\* get_failure_analysis and _analyze_reboot_necessity applied to result
\* sequences that need not come from one battery run: every sequence of at
\* most MaxGiven results of the kinds below, followed by at most MaxPassedMore
\* passed results.
MaxGiven == 3
MaxPassedMore == 7

\* one test of each family the classifier tells apart
GivenTests == {1, 2, 3, 5, 6, 8, 12, 19, 23}

PassedResult(i) ==
    [layer |-> Battery[i].layer, test_name |-> Battery[i].test_name, success |-> TRUE]

FailedResult(i) ==
    [layer |-> Battery[i].layer, test_name |-> Battery[i].test_name, success |-> FALSE]

GivenResults == {FailedResult(i) : i \in GivenTests} \cup {PassedResult(1), PassedResult(23)}

GivenSequences ==
    {given \o [k \in 1..more |-> PassedResult(23)] :
        given \in UNION {[1..n -> GivenResults] : n \in 0..MaxGiven},
        more \in 0..MaxPassedMore}

\* a grouping that takes the passed results of a layer too
FailuresOfLayer_WithPassed(results, layer) ==
    LET OfLayer(r) == r.layer = layer
    IN  SelectSeq(results, OfLayer)

\* failures_by_layer[layer], lines 683-688: the failed results of the layer in
\* the order of self.results
FailuresOfLayer(results, layer) ==
    LET FailedOfLayer(r) == ~r.success /\ r.layer = layer
    IN  SelectSeq(results, FailedOfLayer)

\* the entry appended to likely_causes for a layer, lines 697-715
LikelyCause(layer) ==
    CASE layer = "Physical"    -> "Physical layer issues (cable, interface)"
      [] layer = "Data Link"   -> "Local network issues (switch, ARP)"
      [] layer = "Network"     -> "IP/routing issues"
      [] layer = "Transport"   -> "Port/firewall issues"
      [] layer = "Application" -> "DNS or application-level issues"

\* the entry appended to recommended_actions for a layer, lines 697-715
RecommendedAction(layer) ==
    CASE layer = "Physical"    -> "Check network cables and interface status"
      [] layer = "Data Link"   -> "Check local network connectivity"
      [] layer = "Network"     -> "Check IP configuration and routing"
      [] layer = "Transport"   -> "Check firewall rules and port accessibility"
      [] layer = "Application" -> "Check DNS configuration and application services"

\* NetworkDiagnostics.get_failure_analysis for self.results = results
GetFailureAnalysis(results) ==
    LET keys == {results[i].layer : i \in {j \in DOMAIN results : ~results[j].success}}
        failures_by_layer == [layer \in keys |-> FailuresOfLayer(results, layer)]
        InKeys(layer) == layer \in DOMAIN failures_by_layer
        found == SelectSeq(Layers, InKeys)
    IN  [failures_by_layer |-> failures_by_layer,
         likely_causes |-> [k \in 1..Len(found) |-> LikelyCause(found[k])],
         recommended_actions |-> [k \in 1..Len(found) |-> RecommendedAction(found[k])]]

NoAnalysis == [failures_by_layer |-> << >>, likely_causes |-> << >>,
               recommended_actions |-> << >>]

AnalyzeInit ==
    /\ SupervisorUnused
    /\ original = "unused"
    /\ probe = "unused"
    /\ detector = "unused"
    /\ client = "unused"
    /\ \E results \in GivenSequences :
          classified = [pc |-> "given", results |-> results,
                        analysis |-> NoAnalysis, should_reboot |-> "unset"]

\* run_network_diagnostics, line 202: failure_analysis = get_failure_analysis()
AnalyzeFailures ==
    /\ classified.pc = "given"
    /\ classified' = [classified EXCEPT !.pc = "analysed",
                          !.analysis = GetFailureAnalysis(classified.results)]
    /\ UNCHANGED << supervisor, original, probe, detector, client >>

\* run_network_diagnostics, line 219: _analyze_reboot_necessity(results, failure_analysis)
AnalyzeNecessity ==
    /\ classified.pc = "analysed"
    /\ classified' = [classified EXCEPT !.pc = "done",
                          !.should_reboot = AnalyzeRebootNecessity(classified.results)]
    /\ UNCHANGED << supervisor, original, probe, detector, client >>

AnalyzeNext == AnalyzeFailures \/ AnalyzeNecessity

AnalyzeSpec == AnalyzeInit /\ [][AnalyzeNext]_vars

\* none of the rules before the success rate decides: no critical Physical
\* failure, no DNS-only failure pattern, no Transport failure, and no Network
\* failure pattern of three ICMP failures or a routing/IP failure
NoEarlierRuleDecides ==
    /\ ~CriticalPhysicalFailure
    /\ ~(/\ FamilyFailed("DNS Resolution")
         /\ ~FamilyFailed("HTTP Request")
         /\ ~LayerFailed("Network"))
    /\ ~LayerFailed("Transport")
    /\ ~(\/ Cardinality(IcmpFailures) >= 3
         \/ FamilyFailed("Routing Table")
         \/ FamilyFailed("IP Configuration"))

\* C23: when no earlier rule decides, the classification is False exactly
\* when strictly more than 70% of all results are successes and True
\* otherwise; a pass rate of exactly 70% and the empty sequence give True.
C23_SuccessRateStrictlyAbove70 ==
    (classified.pc = "done" /\ NoEarlierRuleDecides) =>
        /\ classified.should_reboot \in BOOLEAN
        /\ classified.should_reboot = FALSE <=> PassRateAbove70
        /\ 10 * (Len(classified.results) - Cardinality(Failures))
               = 7 * Len(classified.results)
           => classified.should_reboot = TRUE

C23_Witness ==
    /\ classified.pc = "done"
    /\ NoEarlierRuleDecides
    /\ Len(classified.results) = 10
    /\ Cardinality(Failures) = 3
    /\ classified.should_reboot = TRUE

\* --------------------------- run_full_diagnostics on one NetworkDiagnostics
\* One NetworkDiagnostics object on which run_full_diagnostics is called up
\* to MaxRuns times, each time with at most MaxFailed failing tests;
\* gateway_ip tells whether self.gateway_ip is set (it is kept between runs),
\* gateway whether `ip route show default` named a gateway in the last run.
MaxRuns == 3

\* a run that keeps the results of the runs before it
RunFullDiagnosticsOn_NoReset(prior, env) == prior \o RunFullDiagnostics(env)

\* run_full_diagnostics on an object whose self.results is prior: line 56
\* resets the list, the five layer methods append to it
RunFullDiagnosticsOn(prior, env) ==
    LET results == << >>
    IN  results \o RunFullDiagnostics(env)

\* NetworkDiagnostics.__init__
RunsInit ==
    /\ SupervisorUnused
    /\ original = "unused"
    /\ probe = "unused"
    /\ detector = "unused"
    /\ client = "unused"
    /\ classified = [pc |-> "idle", results |-> << >>, runs |-> 0,
                     fail |-> {}, gateway |-> TRUE, gateway_ip |-> FALSE]

RunDiagnostics ==
    /\ classified.pc = "idle"
    /\ classified.runs < MaxRuns
    /\ \E fail \in FailSets(MaxFailed), gateway \in BOOLEAN :
          LET env == [fail |-> fail, gateway |-> classified.gateway_ip \/ gateway,
                      alarm |-> [at |-> "none", idx |-> 0]]
          IN  classified' = [classified EXCEPT
                                !.results = RunFullDiagnosticsOn(classified.results, env),
                                !.runs = classified.runs + 1,
                                !.fail = fail,
                                !.gateway = gateway,
                                !.gateway_ip = classified.gateway_ip \/ gateway]
    /\ UNCHANGED << supervisor, original, probe, detector, client >>

RunsNext == RunDiagnostics

RunsSpec == RunsInit /\ [][RunsNext]_vars

\* position of a layer in the order Physical .. Application
LayerIndex(layer) == CHOOSE k \in DOMAIN Layers : Layers[k] = layer

\* C25: after every run of run_full_diagnostics, also a second one on the
\* same object, self.results holds this run's results only (no test twice),
\* in the layer order Physical .. Application, and holds a result of each of
\* the five layers, whichever tests failed.
C25_LayerOrderAllLayersFreshResults ==
    classified.runs >= 1 =>
        LET results == classified.results
        IN  /\ \A i, j \in DOMAIN results :
                   i < j => /\ LayerIndex(results[i].layer) <= LayerIndex(results[j].layer)
                            /\ results[i].test_name # results[j].test_name
            /\ \A k \in DOMAIN Layers : \E i \in DOMAIN results : results[i].layer = Layers[k]

C25_Witness ==
    /\ classified.runs = 2
    /\ \E i \in Failures : classified.results[i].layer = "Physical"
    /\ \E i \in DOMAIN classified.results :
           /\ classified.results[i].layer = "Application"
           /\ classified.results[i].success

\* the layers with a failed result in the analysed sequence
FailedLayers == {classified.results[i].layer : i \in Failures}

\* the failed results of a layer, as positions of the analysed sequence
FailuresAt(layer) == {i \in Failures : classified.results[i].layer = layer}

\* C26: get_failure_analysis groups exactly the failed results by layer, each
\* group in the order of the sequence, without passed results and without
\* empty groups; likely_causes and recommended_actions hold exactly the fixed
\* entry of each layer that has a failure, in the order Physical ..
\* Application, and are empty when nothing failed.
C26_FailureAnalysisGroupsFailuresByLayer ==
    classified.pc \in {"analysed", "done"} =>
        LET analysis == classified.analysis
            Rank(layer) == Cardinality({other \in FailedLayers :
                                           LayerIndex(other) <= LayerIndex(layer)})
        IN  /\ DOMAIN analysis.failures_by_layer = FailedLayers
            /\ \A layer \in FailedLayers :
                   LET group == analysis.failures_by_layer[layer]
                   IN  /\ Len(group) = Cardinality(FailuresAt(layer))
                       /\ \A i \in FailuresAt(layer) :
                              group[Cardinality({j \in FailuresAt(layer) : j <= i})]
                                  = classified.results[i]
            /\ Len(analysis.likely_causes) = Cardinality(FailedLayers)
            /\ Len(analysis.recommended_actions) = Cardinality(FailedLayers)
            /\ \A layer \in FailedLayers :
                   /\ analysis.likely_causes[Rank(layer)] = LikelyCause(layer)
                   /\ analysis.recommended_actions[Rank(layer)] = RecommendedAction(layer)

C26_Witness ==
    /\ classified.pc = "analysed"
    /\ \E i, j \in Failures :
           /\ i < j
           /\ classified.results[i].layer = "Application"
           /\ classified.results[j].layer = "Physical"
    /\ \E i \in DOMAIN classified.results : classified.results[i].success
    /\ classified.analysis.likely_causes =
           << "Physical layer issues (cable, interface)",
              "DNS or application-level issues" >>

\* ---------------------------------------------------------- check_internet
\* One call of check_internet(ping_hosts, http_hosts) with at most MaxHosts
\* hosts in each list.  A check answers "ok" (ping exits 0, HTTP status 200),
\* "fail" (ping and http_check return False), or "raise" (an exception that
\* ping and http_check do not catch leaves check_internet).
MaxHosts == 3

CheckOutcomes == {"ok", "fail", "raise"}

\* the first n configured hosts of a kind
Hosts(kind, n) == [k \in 1..n |-> << kind, k >>]

ProbeInit ==
    /\ SupervisorUnused
    /\ original = "unused"
    /\ detector = "unused"
    /\ client = "unused"
    /\ classified = "unused"
    /\ \E pings \in 0..MaxHosts, https \in 0..MaxHosts :
          probe = [pc |-> "ping", ping_hosts |-> Hosts("ping", pings),
                   http_hosts |-> Hosts("http", https), idx |-> 1,
                   checks |-> << >>, result |-> "unset"]

\* a probe that goes on to the next host after a successful check
CheckReturns_Never(outcome) == outcome = "never"

\* `if ping(host): return True`, `if http_check(url): return True`
CheckReturns(outcome) == outcome = "ok"

\* one check of a loop of check_internet and what the loop does with it
CheckStep(p, host, outcome) ==
    LET checked == [p EXCEPT !.checks = Append(p.checks, [host |-> host, outcome |-> outcome])]
    IN  IF outcome = "raise" THEN [checked EXCEPT !.pc = "done", !.result = "raised"]
        ELSE IF CheckReturns(outcome) THEN [checked EXCEPT !.pc = "done", !.result = "UP"]
        ELSE [checked EXCEPT !.idx = p.idx + 1]

\* for host in ping_hosts, one iteration
PingCheck ==
    /\ probe.pc = "ping"
    /\ probe.idx <= Len(probe.ping_hosts)
    /\ \E outcome \in CheckOutcomes :
          probe' = CheckStep(probe, probe.ping_hosts[probe.idx], outcome)
    /\ UNCHANGED << supervisor, original, detector, client, classified >>

\* the ping loop ends without a successful ping
PingsExhausted ==
    /\ probe.pc = "ping"
    /\ probe.idx > Len(probe.ping_hosts)
    /\ probe' = [probe EXCEPT !.pc = "http", !.idx = 1]
    /\ UNCHANGED << supervisor, original, detector, client, classified >>

\* for url in http_hosts, one iteration
HttpCheck ==
    /\ probe.pc = "http"
    /\ probe.idx <= Len(probe.http_hosts)
    /\ \E outcome \in CheckOutcomes :
          probe' = CheckStep(probe, probe.http_hosts[probe.idx], outcome)
    /\ UNCHANGED << supervisor, original, detector, client, classified >>

\* the HTTP loop ends without a successful check: return False
HttpExhausted ==
    /\ probe.pc = "http"
    /\ probe.idx > Len(probe.http_hosts)
    /\ probe' = [probe EXCEPT !.pc = "done", !.result = "DOWN"]
    /\ UNCHANGED << supervisor, original, detector, client, classified >>

ProbeNext == PingCheck \/ PingsExhausted \/ HttpCheck \/ HttpExhausted

ProbeSpec == ProbeInit /\ [][ProbeNext]_vars

\* the configured checks in the configured order, pings first
ConfiguredChecks == probe.ping_hosts \o probe.http_hosts

\* C27: the checks made are the configured ping hosts in order followed by
\* the configured HTTP hosts in order, none is made after a successful one,
\* the probe reports UP exactly when a check succeeded, and DOWN exactly when
\* every configured ping and HTTP check was made and failed.
C27_ProbeStopsAtFirstSuccess ==
    LET checks == probe.checks
    IN  /\ Len(checks) <= Len(ConfiguredChecks)
        /\ \A k \in DOMAIN checks :
               /\ checks[k].host = ConfiguredChecks[k]
               /\ k < Len(checks) => checks[k].outcome = "fail"
        /\ probe.result = "UP" <=> \E k \in DOMAIN checks : checks[k].outcome = "ok"
        /\ probe.result = "DOWN" <=>
               /\ probe.pc = "done"
               /\ Len(checks) = Len(ConfiguredChecks)
               /\ \A k \in DOMAIN checks : checks[k].outcome = "fail"

C27_Witness ==
    /\ probe.pc = "done"
    /\ probe.result = "UP"
    /\ Len(probe.ping_hosts) = 3
    /\ Len(probe.http_hosts) = 3
    /\ Len(probe.checks) = 4
    /\ probe.checks[4].outcome = "ok"

\* --------------------------------------------- SurfboardHNAP.login_html_form
\* One call of login_html_form with its clock, in seconds since the call;
\* iterations counts the passes of the loop the call is in.
\* An attempt (one GET or POST with the session's retries) takes 0 to
\* MaxAttemptSeconds seconds.
MaxAttemptSeconds == 1

\* deadline = time.time() + 90
FetchWindow == 90
\* deadline = time.time() + 30
PostWindow == 30
\* time.sleep(2)
RetrySleep == 2

\* a retry loop without its sleep
AfterSleep_NoSleep(t) == t

\* time.sleep(2)
AfterSleep(t) == t + RetrySleep

FormInit ==
    /\ SupervisorUnused
    /\ original = "unused"
    /\ probe = "unused"
    /\ detector = "unused"
    /\ classified = "unused"
    /\ client = [pc |-> "fetch_while", now |-> 0, deadline |-> FetchWindow,
                 started |-> 0, fetch_ok |-> "None", iterations |-> 0,
                 result |-> "unset"]

\* `while time.time() < deadline:` of the fetch loop, and `if not fetch_ok`
FormFetchWhile ==
    /\ client.pc = "fetch_while"
    /\ client' = IF client.now < client.deadline
                 THEN [client EXCEPT !.pc = "fetch_https", !.started = client.now,
                                     !.iterations = client.iterations + 1]
                 ELSE [client EXCEPT !.pc = "done", !.result = "False"]
    /\ UNCHANGED << supervisor, original, probe, detector, classified >>

\* one pass of `for scheme in ("https", "http")`: _attempt_fetch_login_page;
\* a 200 answer leaves both loops and opens the POST window
FormFetchAttempt ==
    /\ client.pc \in {"fetch_https", "fetch_http"}
    /\ \E seconds \in 0..MaxAttemptSeconds, ok \in BOOLEAN :
          LET t == client.now + seconds
          IN  client' =
                 IF ok
                 THEN [client EXCEPT !.pc = "post_while", !.now = t,
                           !.fetch_ok = IF client.pc = "fetch_https" THEN "https" ELSE "http",
                           !.deadline = t + PostWindow, !.iterations = 0]
                 ELSE [client EXCEPT !.now = t,
                           !.pc = IF client.pc = "fetch_https" THEN "fetch_http"
                                  ELSE "fetch_sleep"]
    /\ UNCHANGED << supervisor, original, probe, detector, classified >>

FormFetchSleep ==
    /\ client.pc = "fetch_sleep"
    /\ client' = [client EXCEPT !.pc = "fetch_while", !.now = AfterSleep(client.now)]
    /\ UNCHANGED << supervisor, original, probe, detector, classified >>

\* `while time.time() < deadline:` of the POST loop, and the final return False
FormPostWhile ==
    /\ client.pc = "post_while"
    /\ client' = IF client.now < client.deadline
                 THEN [client EXCEPT !.pc = "post_try", !.started = client.now,
                                     !.iterations = client.iterations + 1]
                 ELSE [client EXCEPT !.pc = "done", !.result = "False"]
    /\ UNCHANGED << supervisor, original, probe, detector, classified >>

\* the try of the POST loop: status 200 returns True; another status or a
\* RequestException goes on to the sleep
FormPostAttempt ==
    /\ client.pc = "post_try"
    /\ \E seconds \in 0..MaxAttemptSeconds, ok \in BOOLEAN :
          client' = IF ok
                    THEN [client EXCEPT !.pc = "done", !.result = "True",
                                        !.now = client.now + seconds]
                    ELSE [client EXCEPT !.pc = "post_sleep",
                                        !.now = client.now + seconds]
    /\ UNCHANGED << supervisor, original, probe, detector, classified >>

FormPostSleep ==
    /\ client.pc = "post_sleep"
    /\ client' = [client EXCEPT !.pc = "post_while", !.now = AfterSleep(client.now)]
    /\ UNCHANGED << supervisor, original, probe, detector, classified >>

FormNext ==
    \/ FormFetchWhile \/ FormFetchAttempt \/ FormFetchSleep
    \/ FormPostWhile \/ FormPostAttempt \/ FormPostSleep

FormSpec == FormInit /\ [][FormNext]_vars

\* C28: both retry loops of login_html_form are bounded: every iteration
\* starts before its loop's deadline, the fetch loop makes at most 90/2
\* iterations and the POST loop at most 30/2, the POST window opens only
\* after a fetch succeeded, and a loop that runs out of its window returns
\* False to the caller.
C28_RetryLoopsAreDeadlineBounded ==
    /\ client.started < client.deadline
    /\ client.fetch_ok = "None" => client.iterations * RetrySleep <= FetchWindow
    /\ client.fetch_ok # "None" => client.iterations * RetrySleep <= PostWindow
    /\ client.pc \in {"post_while", "post_try", "post_sleep"} =>
           /\ client.fetch_ok # "None"
           /\ client.deadline <= FetchWindow + 2 * MaxAttemptSeconds + PostWindow
    /\ client.pc = "done" =>
           /\ client.result \in {"True", "False"}
           /\ client.fetch_ok = "None" =>
                  client.result = "False" /\ client.now >= FetchWindow
           /\ client.result = "False" => client.now >= client.deadline

C28_Witness ==
    /\ client.pc = "done"
    /\ client.result = "False"
    /\ client.fetch_ok = "http"
    /\ client.iterations * RetrySleep = PostWindow

\* ------------------------------------------------ supervisor, further claims
\* the loop is between two iterations: the iteration's probe, diagnostics,
\* reboot and outage bookkeeping are done or not yet begun
BetweenIterations == pc \in {"check", "sleep", "report"}

\* C29: a KeyboardInterrupt stops the supervisor only between loop
\* iterations, never with the iteration's outage bookkeeping, diagnostics,
\* reboot attempt or recovery wait still pending.
C29_InterruptOnlyBetweenIterations ==
    [][pc' = "stopped" => BetweenIterations]_vars

\* C30: failure_count is never negative, whatever FAILURE_THRESHOLD is
\* configured and whatever the probes, diagnostics and reboots answer.
C30_FailureCountNonNegative == failure_count >= 0

\* ------------------------------------------- SurfboardHNAP, further claims
\* C31: once login has derived the keys, self.privatekey is
\* HMAC-MD5(key = PublicKey followed by the password, message = Challenge),
\* the LoginPassword sent is HMAC-MD5(key = that privatekey, message =
\* Challenge), and the PrivateKey cookie holds the same privatekey.
C31_KeysAreChainedHmacs ==
    Made("Login:login") =>
        /\ client.privatekey =
               HmacMd5(<< client.lr1.PublicKey, client.password >>, client.lr1.Challenge)
        /\ client.passkey = HmacMd5(client.privatekey, client.lr1.Challenge)
        /\ client.cookies.PrivateKey = client.privatekey

C31_Witness ==
    /\ client.login = "r2"
    /\ client.privatekey = << "HMAC-MD5", << "pub-1", "pw" >>, "chal-1" >>
    /\ client.passkey = << "HMAC-MD5", client.privatekey, "chal-1" >>

\* C32: every generate_hnap_auth call returns the digest, under the session
\* privatekey, of the timestamp read in that call followed by the operation,
\* together with that timestamp; timestamps never go back, calls at
\* different timestamps carry different timestamps, and no two requests of a
\* session carry the same header.
C32_AuthHeaderIsFreshPerRequest ==
    /\ \A i \in DOMAIN client.signed :
          LET call == client.signed[i]
          IN  /\ call.privkey = client.privatekey
              /\ call.auth = << HmacMd5(call.privkey, << call.curtime, call.operation >>),
                                call.curtime >>
    /\ \A i, j \in DOMAIN client.signed :
          i < j => /\ client.signed[i].curtime <= client.signed[j].curtime
                   /\ client.signed[i].curtime # client.signed[j].curtime =>
                          client.signed[i].auth[2] # client.signed[j].auth[2]
                   /\ client.signed[i].auth # client.signed[j].auth

C32_Witness ==
    /\ Len(client.signed) = 4
    /\ client.signed[2].operation = "GetMultipleHNAPs"
    /\ client.signed[4].operation = "GetMultipleHNAPs"
    /\ client.signed[1].curtime = client.signed[3].curtime

\* C39: generate_hnap_auth is never called with self.privatekey unset, and
\* it is called for an operation other than Login only after login has
\* returned a response on this client.
C39_SignedRequestsNeedLogin ==
    \A i \in DOMAIN client.signed :
        /\ client.signed[i].privkey # NoKey
        /\ client.signed[i].operation # "Login" => client.signed[i].login = "r2"
        /\ client.signed[i].operation = "Login" => client.signed[i].login = "pending"

C39_Witness ==
    /\ client.caller = "__main__"
    /\ \E i, j \in DOMAIN client.signed :
          /\ client.signed[i].operation = "GetMultipleHNAPs"
          /\ client.signed[j].operation = "SetStatusSecuritySettings"

\* C33: the step that ends an iteration logs a periodic report exactly when
\* at least OUTAGE_REPORT_INTERVAL has passed since last_report_time; it then
\* sets last_report_time to the current time, and in either case leaves
\* failure_count, outage_start_time and total_outage_duration as they are;
\* the availability logged is 100 * (1 - total_outage_duration / uptime),
\* total_outage_duration holding the completed outages only (100 at uptime 0).
C33_PeriodicReportWhenDue ==
    [][(pc = "report" /\ pc' = "check") =>
          /\ UNCHANGED << failure_count, outage_start_time, total_outage_duration >>
          /\ IF now - last_report_time >= OUTAGE_REPORT_INTERVAL
             THEN /\ last_report_time' = now
                  /\ iter'.report.emitted
                  /\ total_outage_duration = completed
                  /\ LET availability == iter'.report.availability_percentage
                     IN  IF now > 0
                         THEN availability[1] * now =
                                  100 * (now - total_outage_duration) * availability[2]
                         ELSE availability[1] = 100 * availability[2]
             ELSE /\ last_report_time' = last_report_time
                  /\ ~iter'.report.emitted]_vars

C33_Witness ==
    /\ pc = "check"
    /\ iter.report.emitted
    /\ total_outage_duration > 0
    /\ outage_start_time # None
    /\ now > outage_start_time
    /\ last_report_time = now

\* ------------------------------------------- run_full_diagnostics, further
\* the targets of the ICMP Ping results of the last run
PingTargets ==
    {classified.results[i].test_name[2] :
        i \in {j \in DOMAIN classified.results :
                  classified.results[j].test_name[1] = "ICMP Ping"}}

\* the families of the Network-layer results of the last run
NetworkFamilies ==
    {classified.results[i].test_name[1] :
        i \in {j \in DOMAIN classified.results : classified.results[j].layer = "Network"}}

\* C34 as stated: every run pings all five targets, the gateway included,
\* also when no default gateway is known.
C34_AllFivePingTargetsInEveryRun ==
    classified.runs >= 1 =>
        PingTargets = {"Gateway", "Modem", "Local DNS", "Remote DNS", "Public Server"}

\* C34, amended: every run tests the IP configuration and the routing table
\* and pings the modem, the two public DNS addresses and the public server;
\* the gateway is pinged exactly in the runs in which a default gateway is
\* known.
C34_GatewayPingOnlyWithGateway ==
    classified.runs >= 1 =>
        /\ NetworkFamilies = {"IP Configuration", "Routing Table", "ICMP Ping"}
        /\ PingTargets = {"Modem", "Local DNS", "Remote DNS", "Public Server"}
                         \cup (IF classified.gateway_ip THEN {"Gateway"} ELSE {})

C34_Witness ==
    /\ classified.runs >= 1
    /\ ~classified.gateway_ip
    /\ PingTargets = {"Modem", "Local DNS", "Remote DNS", "Public Server"}

\* C35: a reboot is attempted only in an iteration whose probe was DOWN, at
\* most once in an iteration, and only when at least FAILURE_THRESHOLD
\* consecutive DOWN probes have been seen since the last UP probe; once the
\* branch of the probe's answer has set it, failure_count does not exceed
\* the number of those DOWN probes.
C35_RebootOnlyAfterThresholdDowns ==
    /\ pc \notin {"resolved", "stopped"} => failure_count <= downs
    /\ iter.reboots <= 1
    /\ (iter.reboots > 0 \/ pc = "reboot") =>
           /\ iter.probe = "DOWN"
           /\ downs >= FAILURE_THRESHOLD

C35_Witness ==
    /\ iter.reboots = 1
    /\ FAILURE_THRESHOLD = 2
    /\ downs = 3
    /\ failure_count = 2

\* C36: no outage interval is counted twice: total_outage_duration never
\* exceeds the sum of the outages closed by an UP probe plus the length so far
\* of the outage still open, also when a KeyboardInterrupt arrives between
\* the addition of a resolved outage and the clearing of outage_start_time.
C36_OutageCountedAtMostOnce ==
    total_outage_duration <=
        completed + (IF opened # None THEN now - opened ELSE 0)

\* C37: total_outage_duration never exceeds the time monitored since the
\* start (the clock starts at 0), in the final state after an interruption
\* as well, so that the outage percentage lies between 0 and 100.
C37_OutageTimeWithinUptime ==
    /\ 0 <= total_outage_duration
    /\ total_outage_duration <= now

\* the longest sequence whose permutations are all enumerated
MaxPermuted == 4

\* the rearrangements of a sequence: every permutation of a sequence of at
\* most MaxPermuted results, and every exchange of two positions of a longer one
Rearranged(results) ==
    LET n == Len(results)
        perms == IF n <= MaxPermuted
                 THEN {p \in [1..n -> 1..n] : \A i, j \in 1..n : p[i] = p[j] => i = j}
                 ELSE {[k \in 1..n |-> IF k = i THEN j ELSE IF k = j THEN i ELSE k] :
                          i, j \in 1..n}
    IN  {[k \in 1..n |-> results[p[k]]] : p \in perms}

\* C38: the classification does not depend on the position of the results:
\* every rearrangement of the classified sequence is classified as the
\* sequence itself was.
C38_ClassificationIgnoresOrder ==
    classified.pc = "done" =>
        \A permuted \in Rearranged(classified.results) :
            AnalyzeRebootNecessity(permuted) = classified.should_reboot

C38_Witness ==
    /\ classified.pc = "done"
    /\ Len(classified.results) = 4
    /\ classified.results[1].success
    /\ ~classified.results[2].success
    /\ classified.results[2].layer = "Transport"
    /\ ~classified.results[3].success
    /\ classified.results[3].layer = "Network"
    /\ Cardinality(Rearranged(classified.results)) > 6
    /\ classified.should_reboot = TRUE

\* ------------------------ the original supervisor next to the enhanced one
\* monitor_internet.main run beside monitor_internet_improved.main with
\* diagnostics disabled: the enhanced loop makes its iteration step by step,
\* and at the time.sleep(CHECK_INTERVAL) both loops end with, the original
\* loop makes the same iteration on the probe outcome and the modem's
\* behaviour the enhanced loop has met.

\* monitor_internet.reboot_modem: "ok" for True, the cause of the failure for False
original_reboot_modem(in) ==
    IF ~in.reachable THEN "unreachable"
    ELSE IF in.login = "raise" THEN "exception"
    ELSE IF in.login = "none" THEN "login_failed"
    ELSE IF in.status = "raise" THEN "exception"
    ELSE IF in.status = "other" THEN "rejected"
    ELSE IF in.cycle = "raise" THEN "exception"
    ELSE IF in.cycle = "timeout" THEN "cycle_timeout"
    ELSE "ok"

\* monitor_internet.main before its loop: failure_count = 0
OriginalInit == [failure_count |-> 0, reboots |-> 0, reboot |-> "none"]

\* an original loop that resets the count after a failed reboot too
OriginalIteration_AlwaysReset(o, outcome, in) ==
    IF outcome = "UP"
    THEN [failure_count |-> 0, reboots |-> 0, reboot |-> "none"]
    ELSE IF o.failure_count + 1 >= FAILURE_THRESHOLD
         THEN [failure_count |-> 0, reboots |-> 1, reboot |-> original_reboot_modem(in)]
         ELSE [failure_count |-> o.failure_count + 1, reboots |-> 0, reboot |-> "none"]

\* one iteration of monitor_internet.main's loop, lines 208-229, on the probe
\* outcome and the modem's behaviour `in`; reboots and reboot are the history
\* of the iteration (reboot_modem calls made, the last one's result)
OriginalIteration(o, outcome, in) ==
    IF outcome = "UP"
    THEN [failure_count |-> 0, reboots |-> 0, reboot |-> "none"]
    ELSE IF o.failure_count + 1 >= FAILURE_THRESHOLD
         THEN [failure_count |-> IF original_reboot_modem(in) = "ok"
                                 THEN 0
                                 ELSE o.failure_count + 1,
               reboots |-> 1,
               reboot |-> original_reboot_modem(in)]
         ELSE [failure_count |-> o.failure_count + 1, reboots |-> 0, reboot |-> "none"]

PairInit ==
    /\ FAILURE_THRESHOLD \in 0..MaxThreshold
    /\ ENABLE_DIAGNOSTICS = FALSE
    /\ OUTAGE_REPORT_INTERVAL \in 1..MaxInterval
    /\ pc = "check"
    /\ now = 0
    /\ failure_count = 0
    /\ outage_start_time = None
    /\ total_outage_duration = 0
    /\ last_report_time = 0
    /\ iter = IterInit
    /\ downs = 0
    /\ opened = None
    /\ completed = 0
    /\ original = OriginalInit
    /\ probe = "unused"
    /\ detector = "unused"
    /\ client = "unused"
    /\ classified = "unused"

\* the modem behaviours that agree with what the enhanced loop's reboot_modem
\* call of this iteration returned (any behaviour when it made no call)
MetBehaviours ==
    {in \in RebootInputs : iter.reboots > 0 => reboot_modem(in) = iter.reboot}

\* the original loop's iteration, then time.sleep(CHECK_INTERVAL) of both
\* loops (monitor_internet.py line 232, monitor_internet_improved.py line 913)
PairedSleep ==
    /\ pc = "sleep"
    /\ \E d \in Ticks : now' = now + d
    /\ \E in \in MetBehaviours :
          original' = OriginalIteration(original, iter.probe, in)
    /\ pc' = "report"
    /\ UNCHANGED << detector, client, classified, probe, config, failure_count,
                    outage_start_time, total_outage_duration, last_report_time,
                    iter, downs, opened, completed >>

PairNext ==
    \/ CheckInternetUp
    \/ ClearOutage
    \/ CheckInternetDown
    \/ RebootModem
    \/ RecoveryWait
    \/ PairedSleep
    \/ Report

PairSpec == PairInit /\ [][PairNext]_vars

\* C40: with diagnostics disabled both supervisors go through the same
\* failure_count values and make the same reboot_modem calls: between two
\* iterations the counts are equal, the iteration made a reboot attempt in
\* one loop exactly when it made one in the other, with the same result, and
\* the enhanced loop attempts a reboot at the count the original reaches.
C40_SameCountsAndRebootsAsOriginal ==
    /\ pc \in {"report", "check"} =>
          /\ original.failure_count = failure_count
          /\ original.reboots = iter.reboots
          /\ original.reboot = iter.reboot
    /\ pc = "reboot" => failure_count = original.failure_count + 1

C40_Witness ==
    /\ pc = "report"
    /\ FAILURE_THRESHOLD = 2
    /\ downs = 3
    /\ iter.reboots = 1
    /\ iter.reboot = "cycle_timeout"
    /\ original.reboots = 1
    /\ original.failure_count = 3
    /\ failure_count = 3

====
